---- MODULE Spec2Model ----
(***************************************************************************)
(* A model of py_zerox/zerox/models/openai.py: the OpenAI client that      *)
(* turns a page image into markdown through one chat-completions request.  *)
(*                                                                         *)
(* Python values are modelled as follows.                                  *)
(*   - Optional[str]   a record: None, or Str(s) holding the string s      *)
(*   - a dict          a function whose DOMAIN is the dict's key set       *)
(*   - text that is built by formatting (prompts, URLs) is a sequence of   *)
(*     string pieces, so that concatenation and containment are real       *)
(*   - an exception    a record with its class (kind) and its message, a   *)
(*     sequence of pieces: literal text, a number, a response body         *)
(*   - the JSON body of a response: the paths it holds, text-valued and    *)
(*     number-valued paths apart                                           *)
(***************************************************************************)
EXTENDS Integers, Sequences, FiniteSets, TLC

VARIABLES
    environ,             \* os.environ["OPENAI_API_KEY"]: None when unset
    client,              \* the OpenAI instance: its construction and self.api_key
    DEFAULT_LLM_PARAMS,  \* class attribute OpenAI.DEFAULT_LLM_PARAMS
    _instances,          \* class attribute OpenAI._instances
    calls                \* the completion coroutines, by call id

vars == <<environ, client, DEFAULT_LLM_PARAMS, _instances, calls>>

----------------------------------------------------------------------------
(* Bounds of the model. *)

\* How many completion calls may be in flight on the one client.
NumCalls == 2
\* Caller-supplied llm_params hold at most this many keys.
MaxKeys == 2
\* Caller-supplied parameter values range over 0..MaxVal.
MaxVal == 1

Calls == 1..NumCalls

----------------------------------------------------------------------------
(* Python values. *)

None == [none |-> TRUE, s |-> ""]
Str(s) == [none |-> FALSE, s |-> s]

EmptyDict == <<>>

\* The permutations of a finite set, as sequences: the orders in which
\* iterating a Python set may yield its elements.
Orders(S) ==
    {q \in [1..Cardinality(S) -> S] : \A i, j \in 1..Cardinality(S) : q[i] = q[j] => i = j}

SeqToSet(q) == {q[i] : i \in 1..Len(q)}

\* whether sequence part occurs in sequence whole as a contiguous run
Contains(whole, part) ==
    \E i \in 0..(Len(whole) - Len(part)) : SubSeq(whole, i + 1, i + Len(part)) = part

\* The JSON document of a response body: its text-valued and its number-valued
\* paths. NoData stands where no document is involved.
NoData == [text |-> <<>>, num |-> <<>>]

\* The pieces of an exception's message.
Lit(t) == [t |-> t, n |-> 0, d |-> NoData]
Num(n) == [t |-> "{int}", n |-> n, d |-> NoData]
Data(d) == [t |-> "{data}", n |-> 0, d |-> d]

NoError == [kind |-> "", msg |-> <<>>]

\* An exception of class kind with message msg.
Error(kind, msg) == [kind |-> kind, msg |-> msg]

----------------------------------------------------------------------------
(* Class-level state, lines 14-28. *)

system_prompt == <<"Convert the following PDF page to markdown. Return only the markdown with no explanation text. Do not exclude any content from the page.">>

DefaultParams ==
    [k \in {"max_tokens", "temperature", "top_p", "frequency_penalty", "presence_penalty"} |->
        CASE k = "max_tokens" -> 1000
          [] k = "temperature" -> 0
          [] k = "top_p" -> 1
          [] k = "frequency_penalty" -> 0
          [] k = "presence_penalty" -> 0]

----------------------------------------------------------------------------
(* Credential resolution, lines 30-49. *)

\* os.getenv("OPENAI_API_KEY")
getenv(env) == env

\* OpenAI.get_api_key(api_key): the key, or the exception it raises
get_api_key(api_key, env) ==
    LET key == IF api_key.none THEN getenv(env) ELSE api_key
    IN  IF key.none
        THEN [raised |-> TRUE, key |-> None, error |-> Error("MissingOpenAIAPIKeyException", <<>>)]
        ELSE [raised |-> FALSE, key |-> key, error |-> NoError]

\* OpenAI.__init__(api_key): the value handed to BaseModel.__init__, or the
\* exception that ends the construction
__init__(api_key, env) ==
    IF api_key.none
    THEN get_api_key(None, env)
    ELSE [raised |-> FALSE, key |-> api_key, error |-> NoError]

----------------------------------------------------------------------------
(* Parameter validation, lines 51-60. *)

\* Mutant of JoinKeys: only the first key found is named.
JoinFirstKey(order) ==
    IF Len(order) = 0 THEN <<>> ELSE <<Lit(order[1])>>

\* ', '.join(keys), keys in the order the set yields them
JoinKeys(order) ==
    [i \in 1..(IF Len(order) = 0 THEN 0 ELSE 2 * Len(order) - 1) |->
        IF i % 2 = 1 THEN Lit(order[(i + 1) \div 2]) ELSE Lit(", ")]

\* Mutant of Merge: {**params, **defaults}, the defaults winning.
MergeDefaultsWin(defaults, params) ==
    [k \in (DOMAIN defaults) \cup (DOMAIN params) |->
        IF k \in DOMAIN defaults THEN defaults[k] ELSE params[k]]

\* {**defaults, **params}: a new dict, the second operand's values winning
Merge(defaults, params) ==
    [k \in (DOMAIN defaults) \cup (DOMAIN params) |->
        IF k \in DOMAIN params THEN params[k] ELSE defaults[k]]

\* set(params.keys()) - valid_keys
InvalidKeys(defaults, params) == (DOMAIN params) \ (DOMAIN defaults)

\* OpenAI.validate_llm_params(params), reading the class's defaults; order is
\* the order in which the set of invalid keys is iterated by join
validate_llm_params(defaults, params, order) ==
    IF InvalidKeys(defaults, params) # {}
    THEN [raised |-> TRUE, value |-> EmptyDict,
          error |-> Error("InvalidLLMParamsException",
                          <<Lit("Invalid LLM parameters: ")>> \o JoinKeys(order))]
    ELSE [raised |-> FALSE, value |-> Merge(defaults, params), error |-> NoError]

\* Mutant of DefaultsAfterValidate: DEFAULT_LLM_PARAMS.update(params), the
\* class's dict written in place.
DefaultsUpdatedInPlace(defaults, params) ==
    [k \in (DOMAIN defaults) \cup (DOMAIN params) |->
        IF k \in DOMAIN params THEN params[k] ELSE defaults[k]]

\* What validate_llm_params leaves in OpenAI.DEFAULT_LLM_PARAMS: the dict
\* display of line 60 builds a new dict and writes neither operand.
DefaultsAfterValidate(defaults, params) == defaults

----------------------------------------------------------------------------
(* Message construction, lines 143-190. *)

SystemMessage(content) == [role |-> "system", content |-> content, parts |-> <<>>]

\* lines 169-174: the f-string embedding prior_page between triple quotes
FormatMessage(prior_page) ==
    SystemMessage(<<"Markdown must maintain consistent formatting with the following page: \n\n \"\"\"">>
                  \o prior_page \o <<"\"\"\"">>)

\* lines 178-188: the user message, one image_url part holding the data URI
UserMessage(base64_image) ==
    [role |-> "user", content |-> <<>>,
     parts |-> <<[type |-> "image_url", url |-> <<"data:image/png;base64,">> \o base64_image]>>]

\* a Python str is true when it is not empty
Truthy(str) == Len(str) > 0

\* Mutant of MessagesBeforeEncode: prior_page is not tested.
MessagesBeforeEncodeUntested(maintain_format, prior_page) ==
    IF maintain_format
    THEN <<SystemMessage(system_prompt), FormatMessage(prior_page)>>
    ELSE <<SystemMessage(system_prompt)>>

\* lines 159-174: the list as it stands when the coroutine awaits the encoder
MessagesBeforeEncode(maintain_format, prior_page) ==
    IF maintain_format /\ Truthy(prior_page)
    THEN <<SystemMessage(system_prompt), FormatMessage(prior_page)>>
    ELSE <<SystemMessage(system_prompt)>>

\* lines 177-190: the list returned once the encoder has returned
MessagesAfterEncode(messages, base64_image) == Append(messages, UserMessage(base64_image))

\* The files the encoder can read, and the image encoder itself
\* (zerox.processor.image.encode_image_to_base64): the file's base64 text, or
\* the exception of the failed read.
ReadablePaths == {"page.png"}

encode_image_to_base64(image_path) ==
    IF image_path \in ReadablePaths
    THEN [raised |-> FALSE, value |-> <<"base64:", image_path>>, error |-> NoError]
    ELSE [raised |-> TRUE, value |-> <<>>,
          error |-> Error("FileNotFoundError", <<Lit(image_path)>>)]

----------------------------------------------------------------------------
(* The remote request, lines 97-141. *)

HTTP_OK == 200

ContentPath == "choices[0].message.content"
PromptTokensPath == "usage.prompt_tokens"
CompletionTokensPath == "usage.completion_tokens"

\* The error message catalog (zerox.constants.messages.Messages).
OPENAI_NON_200_RESPONSE(status_code, data) ==
    <<Lit("Error while processing OpenAI request: "), Num(status_code), Lit(" "), Data(data)>>

OPENAI_COMPLETION_ERROR(err) ==
    <<Lit("Error in OpenAI completion: ")>> \o err.msg

\* lines 116-126: what session.post sends
RequestOf(messages, model, api_key) ==
    [url |-> "https://api.openai.com/v1/chat/completions",
     json |-> [messages |-> messages, model |-> model],
     headers |-> [Authorization |-> <<"Bearer ", api_key.s>>,
                  ContentType |-> "application/json"]]

\* line 128: await response.json(), which raises when the body is no JSON
ResponseJson(response) ==
    IF response.body.json
    THEN [raised |-> FALSE, data |-> response.body.data, error |-> NoError]
    ELSE [raised |-> TRUE, data |-> NoData,
          error |-> Error("ContentTypeError", <<Lit("Attempt to decode JSON with unexpected mimetype")>>)]

\* Mutant of ParseCompletion: the two token counts swapped.
ParseCompletionSwapped(data) ==
    IF \/ ContentPath \notin DOMAIN data.text
       \/ PromptTokensPath \notin DOMAIN data.num
       \/ CompletionTokensPath \notin DOMAIN data.num
    THEN [raised |-> TRUE, error |-> Error("KeyError", <<>>),
          content |-> "", input_tokens |-> 0, output_tokens |-> 0]
    ELSE [raised |-> FALSE, error |-> NoError,
          content |-> data.text[ContentPath],
          input_tokens |-> data.num[CompletionTokensPath],
          output_tokens |-> data.num[PromptTokensPath]]

\* lines 137-141: the three subscript chains, evaluated in this order, the
\* first missing one raising KeyError
ParseCompletion(data) ==
    IF ContentPath \notin DOMAIN data.text
    THEN [raised |-> TRUE, error |-> Error("KeyError", <<Lit(ContentPath)>>),
          content |-> "", input_tokens |-> 0, output_tokens |-> 0]
    ELSE IF PromptTokensPath \notin DOMAIN data.num
    THEN [raised |-> TRUE, error |-> Error("KeyError", <<Lit(PromptTokensPath)>>),
          content |-> "", input_tokens |-> 0, output_tokens |-> 0]
    ELSE IF CompletionTokensPath \notin DOMAIN data.num
    THEN [raised |-> TRUE, error |-> Error("KeyError", <<Lit(CompletionTokensPath)>>),
          content |-> "", input_tokens |-> 0, output_tokens |-> 0]
    ELSE [raised |-> FALSE, error |-> NoError,
          content |-> data.text[ContentPath],
          input_tokens |-> data.num[PromptTokensPath],
          output_tokens |-> data.num[CompletionTokensPath]]

NoResult == [content |-> "", input_tokens |-> 0, output_tokens |-> 0]

Raise(err) == [status |-> "raised", result |-> NoResult, error |-> err]
Return(res) == [status |-> "returned", result |-> res, error |-> NoError]
Pending == [status |-> "pending", result |-> NoResult, error |-> NoError]

\* lines 128-141: what _make_request does with what the transport delivered:
\* an exception of session.post, or a response
HandleResponse(transport) ==
    IF transport.raised THEN Raise(transport.error)
    ELSE LET parsed == ResponseJson(transport.response)
         IN  IF parsed.raised THEN Raise(parsed.error)
             ELSE IF transport.response.status # HTTP_OK
             THEN Raise(Error("Exception",
                              OPENAI_NON_200_RESPONSE(transport.response.status, parsed.data)))
             ELSE LET c == ParseCompletion(parsed.data)
                  IN  IF c.raised THEN Raise(c.error)
                      ELSE Return([content |-> c.content,
                                   input_tokens |-> c.input_tokens,
                                   output_tokens |-> c.output_tokens])

\* Mutant of WrapRequestOutcome: no try/except, the cause reaches the caller.
WrapNothing(made) == made

\* lines 90-95: completion returns what _make_request returns and wraps
\* whatever it raises
WrapRequestOutcome(made) ==
    IF made.status = "raised"
    THEN Raise(Error("Exception", OPENAI_COMPLETION_ERROR(made.error)))
    ELSE made

----------------------------------------------------------------------------
(* One completion call, lines 62-95, as the record of its coroutine. *)

NoneDict == [none |-> TRUE, d |-> EmptyDict]
Dict(d) == [none |-> FALSE, d |-> d]

\* llm_params or {}
OrEmpty(llm_params) ==
    IF llm_params.none \/ DOMAIN llm_params.d = {} THEN EmptyDict ELSE llm_params.d

NoArgs ==
    [image_path |-> "", maintain_format |-> FALSE, prior_page |-> <<>>,
     model |-> "", llm_params |-> NoneDict]

NoTransport ==
    [raised |-> FALSE, error |-> NoError,
     response |-> [status |-> 0, body |-> [json |-> FALSE, data |-> NoData]]]

\* A call that is not running. trace lists the steps the call has entered, in
\* order; posts the requests it has handed to session.post.
Idle ==
    [pc |-> "idle", args |-> NoArgs, messages |-> <<>>, validated |-> EmptyDict,
     posts |-> <<>>, trace |-> <<>>, transport |-> NoTransport,
     made |-> Pending, outcome |-> Pending]

\* lines 82-86 and 159-177: completion enters _prepare_messages, which builds
\* the system messages, calls the encoder and awaits it
Begin(args) ==
    [Idle EXCEPT !.pc = "encoding",
                 !.args = args,
                 !.messages = MessagesBeforeEncode(args.maintain_format, args.prior_page),
                 !.trace = <<"_prepare_messages", "encode_image_to_base64">>]

\* Mutant of AfterEncode: the parameters are validated before the encoder's
\* outcome is looked at.
AfterEncodeValidateFirst(call, defaults, api_key, order) ==
    LET enc == encode_image_to_base64(call.args.image_path)
        v == validate_llm_params(defaults, OrEmpty(call.args.llm_params), order)
    IN  IF v.raised
        THEN [call EXCEPT !.pc = "done",
                          !.trace = Append(@, "validate_llm_params"),
                          !.outcome = Raise(v.error)]
        ELSE IF enc.raised
        THEN [call EXCEPT !.pc = "done", !.outcome = Raise(enc.error)]
        ELSE LET messages == MessagesAfterEncode(call.messages, enc.value)
             IN  [call EXCEPT !.pc = "requesting",
                               !.messages = messages,
                               !.validated = v.value,
                               !.trace = @ \o <<"validate_llm_params", "_make_request">>,
                               !.posts = Append(@, RequestOf(messages, call.args.model, api_key))]

\* lines 177-190, 88 and 90-127: the encoder's outcome arrives; its exception
\* leaves completion as it is; otherwise the user message is appended, the
\* parameters are validated, and _make_request posts the request and awaits
AfterEncode(call, defaults, api_key, order) ==
    LET enc == encode_image_to_base64(call.args.image_path)
    IN  IF enc.raised
        THEN [call EXCEPT !.pc = "done", !.outcome = Raise(enc.error)]
        ELSE LET messages == MessagesAfterEncode(call.messages, enc.value)
                 v == validate_llm_params(defaults, OrEmpty(call.args.llm_params), order)
             IN  IF v.raised
                 THEN [call EXCEPT !.pc = "done",
                                   !.messages = messages,
                                   !.trace = Append(@, "validate_llm_params"),
                                   !.outcome = Raise(v.error)]
                 ELSE [call EXCEPT !.pc = "requesting",
                                   !.messages = messages,
                                   !.validated = v.value,
                                   !.trace = @ \o <<"validate_llm_params", "_make_request">>,
                                   !.posts = Append(@, RequestOf(messages, call.args.model, api_key))]

\* Mutant of AfterResponse: a failed request is posted once more.
AfterResponseRetry(call, transport) ==
    [call EXCEPT !.pc = "done",
                 !.transport = transport,
                 !.made = HandleResponse(transport),
                 !.outcome = WrapRequestOutcome(HandleResponse(transport)),
                 !.posts = IF HandleResponse(transport).status = "raised"
                           THEN Append(@, @[1]) ELSE @]

\* lines 127-141 and 93-95: the transport's outcome arrives and the call ends
AfterResponse(call, transport) ==
    [call EXCEPT !.pc = "done",
                 !.transport = transport,
                 !.made = HandleResponse(transport),
                 !.outcome = WrapRequestOutcome(HandleResponse(transport))]

----------------------------------------------------------------------------
(* The inputs. *)

EnvValues == {None, Str(""), Str("envkey")}
KeyArguments == {None, Str(""), Str("mykey")}

KeyUniverse == (DOMAIN DefaultParams) \cup {"stop", "seed"}
ParamDicts ==
    UNION {[K -> 0..MaxVal] : K \in {S \in SUBSET KeyUniverse : Cardinality(S) <= MaxKeys}}

ImagePaths == {"page.png", "missing.png"}
PriorPages == {<<>>, <<"Hello">>}
Models == {"gpt-4o-mini"}

Args ==
    [image_path : ImagePaths, maintain_format : BOOLEAN, prior_page : PriorPages,
     model : Models, llm_params : {NoneDict} \cup {Dict(d) : d \in ParamDicts}]

\* The response bodies: JSON documents holding any of the three expected
\* paths, and a body that is no JSON.
JsonBodies ==
    {[json |-> TRUE, data |-> [text |-> t, num |-> n]] :
        t \in {<<>>, [p \in {ContentPath} |-> "# Title"]},
        n \in {[p \in K |-> IF p = PromptTokensPath THEN 10 ELSE 5] :
                  K \in SUBSET {PromptTokensPath, CompletionTokensPath}}}
TextBody == [json |-> FALSE, data |-> NoData]

Statuses == {HTTP_OK, 429, 502}

\* What the transport may deliver: an exception of session.post, or a response.
Transports ==
    {[NoTransport EXCEPT !.raised = TRUE,
                         !.error = Error("ClientConnectionError", <<Lit("Cannot connect to host")>>)]}
    \cup {[NoTransport EXCEPT !.response = [status |-> st, body |-> b]] :
             st \in Statuses, b \in JsonBodies \cup {TextBody}}

\* The inputs of the concurrent calls: one override, one invalid key, both
\* prior pages, a success, a refusal and a failed connection.
ConcurrentArgs ==
    [image_path : ReadablePaths, maintain_format : BOOLEAN, prior_page : PriorPages,
     model : Models,
     llm_params : {NoneDict, Dict([k \in {"temperature"} |-> 1]), Dict([k \in {"stop"} |-> 1])}]
ConcurrentTransports ==
    {[NoTransport EXCEPT !.raised = TRUE,
                         !.error = Error("ClientConnectionError", <<Lit("Cannot connect to host")>>)]}
    \cup {[NoTransport EXCEPT !.response = [status |-> st, body |-> b]] :
             st \in {HTTP_OK, 429},
             b \in {[json |-> TRUE,
                     data |-> [text |-> [p \in {ContentPath} |-> "# Title"],
                               num |-> [p \in {PromptTokensPath, CompletionTokensPath} |->
                                           IF p = PromptTokensPath THEN 10 ELSE 5]]]}}

----------------------------------------------------------------------------
(* The state machine. *)

Init ==
    /\ environ \in EnvValues
    /\ client = [state |-> "new", explicit |-> None, api_key |-> None, error |-> NoError]
    /\ DEFAULT_LLM_PARAMS = DefaultParams
    /\ _instances = EmptyDict
    /\ calls = [c \in Calls |-> Idle]

\* OpenAI(api_key), for some argument: lines 30-38. BaseModel.__init__ keeps
\* the key it is given as self.api_key, the attribute line 124 reads.
Construct ==
    /\ client.state = "new"
    /\ \E api_key \in KeyArguments :
          LET r == __init__(api_key, environ)
          IN  client' = IF r.raised
                        THEN [state |-> "failed", explicit |-> api_key, api_key |-> None, error |-> r.error]
                        ELSE [state |-> "ready", explicit |-> api_key, api_key |-> r.key, error |-> NoError]
    /\ UNCHANGED <<environ, DEFAULT_LLM_PARAMS, _instances, calls>>

\* await client.completion(...), for some arguments of the set inputs: the
\* call runs to its first suspension
Start(c, inputs) ==
    /\ client.state = "ready"
    /\ calls[c].pc = "idle"
    /\ \E args \in inputs : calls' = [calls EXCEPT ![c] = Begin(args)]
    /\ UNCHANGED <<environ, client, DEFAULT_LLM_PARAMS, _instances>>

\* the encoder returns or raises, and the call runs to its second suspension
EncodeReturns(c) ==
    /\ calls[c].pc = "encoding"
    /\ \E order \in Orders(InvalidKeys(DEFAULT_LLM_PARAMS, OrEmpty(calls[c].args.llm_params))) :
          calls' = [calls EXCEPT ![c] = AfterEncode(@, DEFAULT_LLM_PARAMS, client.api_key, order)]
    /\ DEFAULT_LLM_PARAMS' =
          IF \/ encode_image_to_base64(calls[c].args.image_path).raised
             \/ InvalidKeys(DEFAULT_LLM_PARAMS, OrEmpty(calls[c].args.llm_params)) # {}
          THEN DEFAULT_LLM_PARAMS
          ELSE DefaultsAfterValidate(DEFAULT_LLM_PARAMS, OrEmpty(calls[c].args.llm_params))
    /\ UNCHANGED <<environ, client, _instances>>

\* the transport delivers one of the outcomes, and the call runs to its end
Responds(c, outcomes) ==
    /\ calls[c].pc = "requesting"
    /\ \E transport \in outcomes : calls' = [calls EXCEPT ![c] = AfterResponse(@, transport)]
    /\ UNCHANGED <<environ, client, DEFAULT_LLM_PARAMS, _instances>>

\* the caller has the call's outcome; the call id is free for the next call
Finish(c) ==
    /\ calls[c].pc = "done"
    /\ calls' = [calls EXCEPT ![c] = Idle]
    /\ UNCHANGED <<environ, client, DEFAULT_LLM_PARAMS, _instances>>

\* One call at a time, over all the inputs.
Next ==
    \/ Construct
    \/ Start(1, Args)
    \/ EncodeReturns(1)
    \/ Responds(1, Transports)
    \/ Finish(1)

Spec == Init /\ [][Next]_vars

\* NumCalls calls interleaved at their suspension points.
NextConcurrent ==
    \/ Construct
    \/ \E c \in Calls : Start(c, ConcurrentArgs)
    \/ \E c \in Calls : EncodeReturns(c)
    \/ \E c \in Calls : Responds(c, ConcurrentTransports)
    \/ \E c \in Calls : Finish(c)

SpecConcurrent == Init /\ [][NextConcurrent]_vars

----------------------------------------------------------------------------
(* The properties. *)

AllowedKeys == {"max_tokens", "temperature", "top_p", "frequency_penalty", "presence_penalty"}

DocumentedDefault(k) ==
    CASE k = "max_tokens" -> 1000
      [] k = "top_p" -> 1
      [] OTHER -> 0

\* the parameter mapping call c hands to validate_llm_params
ParamsOf(c) == OrEmpty(calls[c].args.llm_params)

Entered(c, step) == step \in SeqToSet(calls[c].trace)

\* the keys of KeyUniverse an exception's message names
KeysNamed(err) == {k \in KeyUniverse : Lit(k) \in SeqToSet(err.msg)}

\* C1: whenever validate_llm_params has run on a mapping whose keys are all
\* allowed, it has returned a mapping over exactly the five allowed keys, in
\* which every supplied key has the caller's value and every other key its
\* documented default.
C1_AllowedParamsMerged ==
    \A c \in Calls :
        (Entered(c, "validate_llm_params") /\ DOMAIN ParamsOf(c) \subseteq AllowedKeys)
        => /\ Entered(c, "_make_request")
           /\ DOMAIN calls[c].validated = AllowedKeys
           /\ \A k \in AllowedKeys :
                 calls[c].validated[k] =
                    IF k \in DOMAIN ParamsOf(c) THEN ParamsOf(c)[k] ELSE DocumentedDefault(k)

\* a call whose mapping overrides max_tokens with 0 and leaves top_p out
C1_Witness ==
    \E c \in Calls :
        /\ Entered(c, "validate_llm_params")
        /\ DOMAIN ParamsOf(c) = {"max_tokens", "temperature"}
        /\ ParamsOf(c)["max_tokens"] = 0
        /\ calls[c].validated["max_tokens"] = 0
        /\ calls[c].validated["top_p"] = 1

\* C2: whenever validate_llm_params has run on a mapping holding a key that is
\* not allowed, it has raised InvalidLLMParamsException, no merged mapping
\* exists, and the message names exactly the mapping's disallowed keys.
C2_InvalidParamsRejected ==
    \A c \in Calls :
        (Entered(c, "validate_llm_params") /\ ~(DOMAIN ParamsOf(c) \subseteq AllowedKeys))
        => /\ calls[c].pc = "done"
           /\ calls[c].outcome.status = "raised"
           /\ calls[c].outcome.error.kind = "InvalidLLMParamsException"
           /\ calls[c].validated = EmptyDict
           /\ KeysNamed(calls[c].outcome.error) = (DOMAIN ParamsOf(c)) \ AllowedKeys

\* a rejected mapping with two disallowed keys, both named
C2_Witness ==
    \E c \in Calls :
        /\ Entered(c, "validate_llm_params")
        /\ calls[c].outcome.error.kind = "InvalidLLMParamsException"
        /\ DOMAIN ParamsOf(c) = {"stop", "seed"}
        /\ KeysNamed(calls[c].outcome.error) = {"stop", "seed"}

\* C3: the constructed client holds the explicit key whenever that is not
\* empty; otherwise the environment's key when that is set and not empty;
\* otherwise the construction fails with MissingOpenAIAPIKeyException; so no
\* client holds an empty credential.
C3_CredentialResolution ==
    client.state # "new" =>
        LET explicitGiven == ~client.explicit.none /\ client.explicit.s # ""
            envGiven == ~environ.none /\ environ.s # ""
        IN  /\ explicitGiven => client.state = "ready" /\ client.api_key = client.explicit
            /\ (~explicitGiven /\ envGiven) => client.state = "ready" /\ client.api_key = environ
            /\ (~explicitGiven /\ ~envGiven)
                  => /\ client.state = "failed"
                     /\ client.error.kind = "MissingOpenAIAPIKeyException"
            /\ client.state = "ready" => ~client.api_key.none /\ client.api_key.s # ""

\* C4: once the image is encoded, the messages are the base system message
\* first and the one user image message last, with the format message, which
\* embeds prior_page, between them exactly when maintain_format holds and
\* prior_page is not empty: three messages then and two otherwise.
C4_MessageOrder ==
    \A c \in Calls :
        (calls[c].pc \in {"requesting", "done"} /\ calls[c].args.image_path \in ReadablePaths)
        => LET m == calls[c].messages
               a == calls[c].args
               n == Len(m)
               format == a.maintain_format /\ a.prior_page # <<>>
           IN  /\ n = IF format THEN 3 ELSE 2
               /\ m[1].role = "system" /\ m[1].content = system_prompt
               /\ m[n].role = "user"
               /\ Len(m[n].parts) = 1 /\ m[n].parts[1].type = "image_url"
               /\ \A i \in 1..(n - 1) : m[i].role = "system"
               /\ format => /\ m[2].content # system_prompt
                            /\ Contains(m[2].content, a.prior_page)

\* a call with maintain_format and the prior page "Hello": three messages
C4_Witness ==
    \E c \in Calls :
        /\ calls[c].pc = "requesting"
        /\ calls[c].args.maintain_format
        /\ calls[c].args.prior_page = <<"Hello">>
        /\ Len(calls[c].messages) = 3
        /\ Contains(calls[c].messages[2].content, <<"Hello">>)

\* C5: on status 200 with a body holding the three expected paths,
\* _make_request returns the content, prompt_tokens as input_tokens and
\* completion_tokens as output_tokens.
C5_SuccessParsed ==
    \A c \in Calls :
        LET t == calls[c].transport
            d == t.response.body.data
        IN  (/\ calls[c].pc = "done" /\ Entered(c, "_make_request")
             /\ ~t.raised /\ t.response.status = 200 /\ t.response.body.json
             /\ ContentPath \in DOMAIN d.text
             /\ {PromptTokensPath, CompletionTokensPath} \subseteq DOMAIN d.num)
            => /\ calls[c].made.status = "returned"
               /\ calls[c].made.result.content = d.text[ContentPath]
               /\ calls[c].made.result.input_tokens = d.num[PromptTokensPath]
               /\ calls[c].made.result.output_tokens = d.num[CompletionTokensPath]

\* the response of the spec's example: "# Title", 10 prompt and 5 completion tokens
C5_Witness ==
    \E c \in Calls :
        /\ calls[c].pc = "done"
        /\ calls[c].transport.response.status = 200
        /\ calls[c].made.status = "returned"
        /\ calls[c].made.result = [content |-> "# Title", input_tokens |-> 10, output_tokens |-> 5]

\* C6: on every response whose status is not 200, whatever its body,
\* _make_request raises the non-200 exception carrying the status and the body.
C6_Non200Raised ==
    \A c \in Calls :
        LET t == calls[c].transport
        IN  (/\ calls[c].pc = "done" /\ Entered(c, "_make_request")
             /\ ~t.raised /\ t.response.status # 200)
            => /\ calls[c].made.status = "raised"
               /\ calls[c].made.error.kind = "Exception"
               /\ Num(t.response.status) \in SeqToSet(calls[c].made.error.msg)
               /\ Data(t.response.body.data) \in SeqToSet(calls[c].made.error.msg)

StepOrder == <<"_prepare_messages", "encode_image_to_base64", "validate_llm_params", "_make_request">>

IsPrefix(q, whole) == Len(q) <= Len(whole) /\ q = SubSeq(whole, 1, Len(q))

\* C7, as claimed: validation comes before the image is encoded, so a call
\* with a disallowed key never invokes the encoder and ends with
\* InvalidLLMParamsException, also when the image is unreadable.
C7_ValidationFirst ==
    \A c \in Calls :
        (calls[c].pc # "idle" /\ ~(DOMAIN ParamsOf(c) \subseteq AllowedKeys))
        => /\ ~Entered(c, "encode_image_to_base64")
           /\ calls[c].pc = "done" => calls[c].outcome.error.kind = "InvalidLLMParamsException"

\* C7, amended: the steps run in the order message construction (with the
\* image encoding), parameter validation, request. Validation starts only
\* after the encoder has returned, so a call with a disallowed key invokes the
\* encoder and, when the image is readable, ends with
\* InvalidLLMParamsException before any request; when the parameters are
\* invalid and the image is unreadable, the encoder's error is the one
\* surfaced and validation never runs.
C7_ConstructionFirst ==
    \A c \in Calls :
        LET invalid == ~(DOMAIN ParamsOf(c) \subseteq AllowedKeys)
            readable == calls[c].args.image_path \in ReadablePaths
        IN  /\ IsPrefix(calls[c].trace, StepOrder)
            /\ calls[c].pc # "idle" => Entered(c, "encode_image_to_base64")
            /\ (calls[c].pc = "done" /\ invalid /\ readable)
                  => /\ calls[c].outcome.error.kind = "InvalidLLMParamsException"
                     /\ calls[c].trace = SubSeq(StepOrder, 1, 3)
                     /\ calls[c].posts = <<>>
            /\ (calls[c].pc = "done" /\ ~readable)
                  => /\ calls[c].outcome.status = "raised"
                     /\ calls[c].outcome.error.kind = "FileNotFoundError"
                     /\ ~Entered(c, "validate_llm_params")
                     /\ calls[c].posts = <<>>

\* a finished call whose parameters are invalid and whose image is unreadable
C7_Witness ==
    \E c \in Calls :
        /\ calls[c].pc = "done"
        /\ "stop" \in DOMAIN ParamsOf(c)
        /\ calls[c].args.image_path = "missing.png"
        /\ calls[c].outcome.error.kind = "FileNotFoundError"

\* C8: a failure of the request step reaches the caller as a generic Exception
\* whose message embeds the cause's message; a failure of validation or of
\* the image encoding reaches the caller as the exception it was; a failed
\* call returns no result.
C8_ErrorPropagation ==
    \A c \in Calls :
        calls[c].pc = "done" =>
            LET out == calls[c].outcome
                made == calls[c].made
            IN  /\ out.status \in {"returned", "raised"}
                /\ out.status = "raised" => out.result = NoResult
                /\ (Entered(c, "_make_request") /\ made.status = "raised")
                      => /\ out.status = "raised"
                         /\ out.error.kind = "Exception"
                         /\ Contains(out.error.msg, made.error.msg)
                /\ (Entered(c, "_make_request") /\ made.status = "returned")
                      => out = made
                /\ (Entered(c, "validate_llm_params") /\ ~Entered(c, "_make_request"))
                      => /\ out.status = "raised"
                         /\ out.error.kind = "InvalidLLMParamsException"
                         /\ out.error.msg[1] = Lit("Invalid LLM parameters: ")
                /\ ~Entered(c, "validate_llm_params")
                      => /\ out.status = "raised"
                         /\ out.error = encode_image_to_base64(calls[c].args.image_path).error

\* a call ended by a 200 response that lacks the usage paths: the KeyError,
\* wrapped
C8_Witness ==
    \E c \in Calls :
        /\ calls[c].pc = "done"
        /\ calls[c].made.status = "raised"
        /\ calls[c].made.error.kind = "KeyError"
        /\ calls[c].outcome.error.kind = "Exception"
        /\ Contains(calls[c].outcome.error.msg, <<Lit(PromptTokensPath)>>)

\* C9: a call posts at most once: once when the image was encoded and the
\* parameters were valid, whatever the transport then delivered, and never
\* otherwise.
C9_OnePost ==
    \A c \in Calls :
        LET ready == /\ calls[c].args.image_path \in ReadablePaths
                     /\ DOMAIN ParamsOf(c) \subseteq AllowedKeys
        IN  /\ Len(calls[c].posts) <= 1
            /\ calls[c].pc = "done" => Len(calls[c].posts) = IF ready THEN 1 ELSE 0
            /\ calls[c].pc = "requesting" => Len(calls[c].posts) = 1
            /\ calls[c].pc \in {"idle", "encoding"} => Len(calls[c].posts) = 0

\* a call ended by a 429 response, having posted once
C9_Witness ==
    \E c \in Calls :
        /\ calls[c].pc = "done"
        /\ ~calls[c].transport.raised
        /\ calls[c].transport.response.status = 429
        /\ calls[c].outcome.status = "raised"
        /\ Len(calls[c].posts) = 1

\* call c as it would stand had it run alone on the client as constructed,
\* with the class attributes as the class body sets them
Alone(c, order) ==
    LET begun == Begin(calls[c].args)
        encoded == AfterEncode(begun, DefaultParams, __init__(client.explicit, environ).key, order)
    IN  CASE calls[c].pc = "idle" -> Idle
          [] calls[c].pc = "encoding" -> begun
          [] calls[c].pc = "requesting" -> encoded
          [] calls[c].pc = "done" ->
                IF encoded.pc = "done" THEN encoded
                ELSE AfterResponse(encoded, calls[c].transport)

\* C10: under every interleaving of the calls, the client's credential, the
\* class's default parameters and _instances stay as they were, and every
\* call's messages, request and outcome are those of the call run alone.
C10_CallsIndependent ==
    /\ DEFAULT_LLM_PARAMS = DefaultParams
    /\ _instances = EmptyDict
    /\ client.state = "ready" => client.api_key = __init__(client.explicit, environ).key
    /\ \A c \in Calls :
          \E order \in Orders((DOMAIN ParamsOf(c)) \ AllowedKeys) : calls[c] = Alone(c, order)

\* two calls in flight at once, one overriding temperature and carrying a
\* prior page, the other doing neither
C10_Witness ==
    \E c, d \in Calls :
        /\ c # d
        /\ calls[c].pc = "requesting" /\ calls[d].pc = "done"
        /\ calls[c].validated["temperature"] = 1
        /\ Len(calls[c].messages) = 3
        /\ calls[d].outcome.status = "returned"
        /\ calls[d].validated["temperature"] = 0
        /\ Len(calls[d].messages) = 2

====
